---- MODULE Spec2Model ----
(***************************************************************************)
(* QuestionEncoder of samnet/question_encoder.py as a state machine.       *)
(*                                                                         *)
(* State: the constructor arguments, the three parameter groups            *)
(* (Embedding, lstm, lstm_proj), the number of optimizer steps taken by    *)
(* the training harness, and the record of the latest forward call.        *)
(*                                                                         *)
(* Tensors are nested sequences.  Floating point numbers are abstracted    *)
(* to the finite ring of integers modulo Modulus; sums and products are    *)
(* the ring's, the logistic function is x + 1 (so that sigmoid(0) # 0) and *)
(* tanh is x (so that tanh(0) = 0).  Everything else -- the gate layout    *)
(* of the LSTM cell, the two scan directions, the alignment of the         *)
(* backward outputs, the final states, the projection, the memory layout   *)
(* behind permute / contiguous / view -- is computed step by step.         *)
(***************************************************************************)
EXTENDS Integers, Sequences, FiniteSets, TLC

\* ---------------------------------------------------------------- bounds
MaxVocab == 2
MaxEmb == 1
MaxDim == 2
MaxBatch == 2
MaxLen == 2
MaxSeed == 1
MaxGrad == 1
MaxSteps == 1
Modulus == 3

\* ------------------------------------------------- constants of the code
padding_idx == 0
NumDirections == 2
NumGates == 4

VARIABLES vocabulary_size, embedded_dim, dim, Embedding, lstm, lstm_proj,
          nsteps, cur

vars == <<vocabulary_size, embedded_dim, dim, Embedding, lstm, lstm_proj,
          nsteps, cur>>

params == <<Embedding, lstm, lstm_proj>>

\* ------------------------------------------------------------ arithmetic
Sigmoid(x) == (x + 1) % Modulus

Tanh(x) == x % Modulus

RECURSIVE DotUpTo(_, _, _)
DotUpTo(a, b, n) == IF n = 0 THEN 0 ELSE DotUpTo(a, b, n - 1) + a[n] * b[n]

Dot(a, b) == DotUpTo(a, b, Len(a)) % Modulus

\* A sequence given as a function on 1..n, as an explicit tuple.
Tensor(f) == f \o <<>>

Zeros(n) == Tensor([i \in 1..n |-> 0])

Reverse(s) == Tensor([i \in 1..Len(s) |-> s[Len(s) + 1 - i]])

\* Value number i of the pseudo-random stream of a seed.  The layers draw
\* their initial parameters from continuous distributions around zero; the
\* streams stand for such draws.  Stream 0 is the draw of zeros, the
\* degenerate parameters for which the recurrent layer ignores its input.
Rnd(seed, i) == (seed * (i + 1)) % Modulus

\* ------------------------------------------------------------ construction
\* nn.Embedding(vocabulary_size, embedded_dim, padding_idx=0): a random table
\* whose padding row is filled with zeros.
InitEmbedding(V, E, seed) ==
    [v \in 0..(V - 1) |->
        IF v = padding_idx THEN Zeros(E)
        ELSE [e \in 1..E |-> Rnd(seed, (v - 1) * E + e)]]

\* torch.nn.LSTM(input_size=embedded_dim, hidden_size=dim, num_layers=1,
\* bidirectional=True): per direction weight_ih (4*dim x embedded_dim),
\* weight_hh (4*dim x dim), bias_ih and bias_hh (4*dim), gates in the order
\* input, forget, cell, output.
InitLstm(E, D, seed) ==
    [dir \in 1..NumDirections |->
        [weight_ih |-> [k \in 1..(NumGates * D) |->
                           [e \in 1..E |-> Rnd(seed, dir + k + e)]],
         weight_hh |-> [k \in 1..(NumGates * D) |->
                           [d \in 1..D |-> Rnd(seed, dir + 2 * k + d)]],
         bias_ih   |-> [k \in 1..(NumGates * D) |-> Rnd(seed, dir + k)],
         bias_hh   |-> [k \in 1..(NumGates * D) |-> Rnd(seed, 2 * dir + k)]]]

\* Width of the projection's input and of its output: Linear(2 * dim, dim).
ProjInFeatures(D) == NumDirections * D

ProjOutFeaturesWide(D) == NumDirections * D

ProjOutFeatures(D) == D

InitLinear(D, seed) ==
    [weight |-> [j \in 1..ProjOutFeatures(D) |->
                    [k \in 1..ProjInFeatures(D) |-> Rnd(seed, j + 2 * k)]],
     bias   |-> [j \in 1..ProjOutFeatures(D) |-> Rnd(seed, j)]]

NoCall ==
    [status |-> "none", error |-> "none",
     questions |-> [rank |-> 2, val |-> <<>>],
     questions_len |-> <<>>, version |-> 0, batch_size |-> 0,
     initial_state |-> <<>>, positions |-> <<>>,
     embedded_questions |-> <<>>, lstm_out |-> <<>>, h |-> <<>>, c |-> <<>>,
     returned |-> FALSE,
     contextual_word_embedding |-> <<>>, question_encoding |-> <<>>]

Init ==
    \E V \in 1..MaxVocab, E \in 1..MaxEmb, D \in 1..MaxDim, seed \in 0..MaxSeed :
        /\ vocabulary_size = V
        /\ embedded_dim = E
        /\ dim = D
        /\ Embedding = InitEmbedding(V, E, seed)
        /\ lstm = InitLstm(E, D, seed)
        /\ lstm_proj = InitLinear(D, seed)
        /\ nsteps = 0
        /\ cur = NoCall

\* ---------------------------------------------------------------- layers
\* A questions tensor is [rank, val]: val is an id (rank 0), a sequence of
\* ids (rank 1), batch_size sequences of ids (rank 2), or one more level of
\* nesting (rank 3).
IdsOf(q) ==
    CASE q.rank = 0 -> {q.val}
      [] q.rank = 1 -> {q.val[i] : i \in DOMAIN q.val}
      [] q.rank = 2 -> UNION {{q.val[b][t] : t \in DOMAIN q.val[b]} : b \in DOMAIN q.val}
      [] q.rank = 3 -> UNION {UNION {{q.val[b][t][k] : k \in DOMAIN q.val[b][t]}
                                        : t \in DOMAIN q.val[b]} : b \in DOMAIN q.val}

\* The row of the table an id selects: the id itself, unclamped.
EmbeddingIndexClamped(weight, id) ==
    IF id \in DOMAIN weight THEN id ELSE padding_idx

EmbeddingIndex(weight, id) == id

\* The lookup raises IndexError when an id selects no row.
EmbeddingAccepts(weight, q) ==
    \A id \in IdsOf(q) : EmbeddingIndex(weight, id) \in DOMAIN weight

\* self.Embedding(questions) on a (batch_size, max_question_length) tensor.
EmbeddingLookup(weight, val) ==
    Tensor([b \in DOMAIN val |->
        Tensor([t \in DOMAIN val[b] |-> weight[EmbeddingIndex(weight, val[b][t])]])])

\* The table after a lookup: nn.Embedding was built without max_norm, so a
\* lookup renormalises no row.
EmbeddingAfterLookupRenorm(weight, q) ==
    [v \in DOMAIN weight |->
        IF v \in IdsOf(q)
        THEN [e \in DOMAIN weight[v] |-> IF weight[v][e] > 1 THEN 1 ELSE weight[v][e]]
        ELSE weight[v]]

EmbeddingAfterLookup(weight, q) == weight

\* Pre-activation of gate row k of one direction.
Gate(w, k, x, hprev) ==
    (Dot(w.weight_ih[k], x) + Dot(w.weight_hh[k], hprev)
        + w.bias_ih[k] + w.bias_hh[k]) % Modulus

\* The new cell state from the gate pre-activations a and the old state.
CellState(a, st) ==
    Tensor([d \in 1..Len(st.c) |->
        (Sigmoid(a[Len(st.c) + d]) * st.c[d]
            + Sigmoid(a[d]) * Tanh(a[2 * Len(st.c) + d])) % Modulus])

\* The new hidden state from the output gate and the new cell state cn.
CellOutput(a, cn) ==
    [h |-> Tensor([d \in 1..Len(cn) |->
               (Sigmoid(a[3 * Len(cn) + d]) * Tanh(cn[d])) % Modulus]),
     c |-> cn]

CellUpdate(a, st) == CellOutput(a, CellState(a, st))

\* One step of the LSTM cell: (h, c) after input x from state st.
LstmCell(w, x, st) ==
    CellUpdate(Tensor([k \in 1..(NumGates * Len(st.h)) |-> Gate(w, k, x, st.h)]), st)

\* The states after each input of xs in turn, starting from st.
RECURSIVE Scan(_, _, _, _)
ScanOn(w, rest, nx, acc) == Scan(w, rest, nx, Append(acc, nx))

Scan(w, xs, st, acc) ==
    IF xs = <<>> THEN acc
    ELSE ScanOn(w, Tail(xs), LstmCell(w, Head(xs), st), acc)

\* self.lstm(embedded_questions) is called without (h_0, c_0): every call
\* starts each direction of each batch element from zeros.
InitialStateCarried(dir, b) ==
    IF cur.status = "ok" /\ b <= cur.batch_size
    THEN [h |-> cur.h[dir][b], c |-> cur.c[dir][b]]
    ELSE [h |-> Zeros(dim), c |-> Zeros(dim)]

InitialState(dir, b) == [h |-> Zeros(dim), c |-> Zeros(dim)]

\* Number of positions of batch element b the recurrent layer processes: the
\* input is the padded tensor, not a packed sequence, so all of them.
PositionsPacked(row, questions_len, b) == questions_len[b]

Positions(row, questions_len, b) == Len(row)

\* The reverse direction's states are in processing order (last position
\* first); its outputs are aligned with the positions of the input.
AlignReverseMissing(states) == states

AlignReverse(states) == Reverse(states)

\* The outputs of a direction (zeros at the positions not processed) from its
\* states placed at the positions of the input, and its final state from its
\* states in processing order.
DirectionResult(states, placed, n, len, st0) ==
    [out   |-> Tensor([t \in 1..len |->
                   IF t > n THEN Zeros(Len(st0.h)) ELSE placed[t].h]),
     final |-> IF n = 0 THEN st0 ELSE states[n]]

DirectionPlaced(dir, states, n, len, st0) ==
    DirectionResult(states, IF dir = 1 THEN states ELSE AlignReverse(states),
                    n, len, st0)

\* One direction over the first n inputs of xs: the forward one takes them
\* first to last, the reverse one last to first.
Direction(w, dir, xs, n, st0) ==
    DirectionPlaced(dir,
                    Scan(w, IF dir = 1 THEN SubSeq(xs, 1, n)
                            ELSE Reverse(SubSeq(xs, 1, n)), st0, <<>>),
                    n, Len(xs), st0)

\* The layer is built with batch_first=True: dimension 0 of its input and of
\* lstm_out is the batch, dimension 1 the position.
batch_first_omitted == FALSE

batch_first == TRUE

\* Dimensions 0 and 1 of a tensor exchanged.
Transpose(x) ==
    Tensor([j \in DOMAIN x[1] |-> Tensor([i \in DOMAIN x |-> x[i][j]])])

\* lstm_out and the final states from the runs of both directions over the
\* sequences seqs.
LstmResult(seqs, run) ==
    [out |-> Tensor([b \in DOMAIN seqs |->
                 Tensor([t \in DOMAIN seqs[b] |->
                     run[1][b].out[t] \o run[2][b].out[t]])]),
     h   |-> Tensor([dir \in 1..NumDirections |->
                 Tensor([b \in DOMAIN seqs |-> run[dir][b].final.h])]),
     c   |-> Tensor([dir \in 1..NumDirections |->
                 Tensor([b \in DOMAIN seqs |-> run[dir][b].final.c])])]

LstmRuns(weights, seqs, questions_len) ==
    LstmResult(seqs,
        Tensor([dir \in 1..NumDirections |->
            Tensor([b \in DOMAIN seqs |->
                Direction(weights[dir], dir, seqs[b],
                          Positions(seqs[b], questions_len, b),
                          InitialState(dir, b))])]))

LstmBatchFirst(rec) ==
    IF batch_first THEN rec ELSE [rec EXCEPT !.out = Transpose(rec.out)]

\* self.lstm(embedded_questions): lstm_out of shape
\* (batch_size, max_question_length, 2 * dim) and the final states h, c of
\* shape (2, batch_size, dim).
LstmForward(weights, emb, questions_len) ==
    LstmBatchFirst(LstmRuns(weights,
                            IF batch_first THEN emb ELSE Transpose(emb),
                            questions_len))

\* torch.nn.Linear on one vector.
Linear(layer, x) ==
    Tensor([j \in DOMAIN layer.weight |->
        (Dot(layer.weight[j], x) + layer.bias[j]) % Modulus])

\* self.lstm_proj(lstm_out): the projection of every position separately.
LstmProj(layer, out) ==
    Tensor([b \in DOMAIN out |->
        Tensor([t \in DOMAIN out[b] |-> Linear(layer, out[b][t])])])

\* h.permute(1, 0, 2): (2, batch_size, dim) -> (batch_size, 2, dim).
PermuteMissing(t3) == t3

Permute(t3) ==
    Tensor([b \in DOMAIN t3[1] |-> Tensor([dir \in DOMAIN t3 |-> t3[dir][b]])])

\* .contiguous(): the elements of a 3-d tensor in row-major order.
Contiguous(t3) ==
    LET n2 == Len(t3[1])
        n3 == Len(t3[1][1])
    IN  Tensor([i \in 1..(Len(t3) * n2 * n3) |->
            t3[((i - 1) \div (n2 * n3)) + 1]
              [(((i - 1) \div n3) % n2) + 1]
              [((i - 1) % n3) + 1]])

\* .view(batch_size, -1) of a row-major buffer.
View(flat, rows) ==
    LET cols == Len(flat) \div rows
    IN  Tensor([r \in 1..rows |->
            Tensor([k \in 1..cols |-> flat[(r - 1) * cols + k]])])

\* --------------------------------------------------------------- forward
\* A call that raised: nothing is returned.
Failure(questions, questions_len, source) ==
    [NoCall EXCEPT !.status = "error", !.error = source,
                   !.questions = questions, !.questions_len = questions_len,
                   !.version = nsteps]

\* The builds of the tensor library differ on a 2-d input of the recurrent
\* layer: "batched" ones reject it, "unbatched" ones take it as one sequence
\* and return a 2-d final state, which permute(1, 0, 2) then rejects.
Builds == {"batched", "unbatched"}

\* What a call that ran to its return statement leaves: its outputs, and the
\* intermediate tensors they were computed from.
Success(questions, questions_len, batch_size, embedded_questions, rec) ==
    [status |-> "ok", error |-> "none",
     questions |-> questions, questions_len |-> questions_len,
     version |-> nsteps, batch_size |-> batch_size,
     initial_state |-> Tensor([dir \in 1..NumDirections |->
                           Tensor([b \in 1..batch_size |-> InitialState(dir, b)])]),
     positions |-> Tensor([b \in 1..batch_size |->
                       Positions(embedded_questions[b], questions_len, b)]),
     embedded_questions |-> embedded_questions,
     lstm_out |-> rec.out, h |-> rec.h, c |-> rec.c,
     returned |-> TRUE,
     contextual_word_embedding |-> LstmProj(lstm_proj, rec.out),
     question_encoding |-> View(Contiguous(Permute(rec.h)), batch_size)]

Embedded(questions, questions_len, embedded_questions) ==
    Success(questions, questions_len, Len(questions.val), embedded_questions,
            LstmForward(lstm, embedded_questions, questions_len))

\* QuestionEncoder.forward(questions, questions_len), statement by statement.
ForwardResult(questions, questions_len, build) ==
    IF questions.rank = 0
    THEN Failure(questions, questions_len, "shape")
    ELSE IF ~EmbeddingAccepts(Embedding, questions)
    THEN Failure(questions, questions_len, "embedding")
    ELSE IF questions.rank = 3
    THEN Failure(questions, questions_len, "lstm")
    ELSE IF questions.rank = 1
    THEN Failure(questions, questions_len,
                 IF build = "batched" THEN "lstm" ELSE "permute")
    ELSE Embedded(questions, questions_len,
                  EmbeddingLookup(Embedding, questions.val))

ForwardCall(questions, questions_len, build) ==
    /\ cur' = ForwardResult(questions, questions_len, build)
    /\ Embedding' = IF questions.rank > 0 /\ EmbeddingAccepts(Embedding, questions)
                    THEN EmbeddingAfterLookup(Embedding, questions)
                    ELSE Embedding
    /\ UNCHANGED <<vocabulary_size, embedded_dim, dim, lstm, lstm_proj, nsteps>>

\* The ids of the vocabulary, and the ids next to it on either side.
TokenIds == 0..(vocabulary_size - 1)

OutOfRangeIds == {-1, vocabulary_size}

\* forward on a well-formed batch: a (batch_size, max_question_length) tensor
\* of ids of the vocabulary, and one declared length per batch element, which
\* may or may not agree with where the padding of its row starts.
Forward ==
    \E B \in 1..MaxBatch, L \in 1..MaxLen :
        \E val \in [1..B -> [1..L -> TokenIds]], questions_len \in [1..B -> 1..L] :
            ForwardCall([rank |-> 2, val |-> val], questions_len, "batched")

\* forward on a batch of padding whose last id is outside the vocabulary.
ForwardOutOfRange ==
    \E B \in 1..MaxBatch, L \in 1..MaxLen, id \in OutOfRangeIds :
        ForwardCall([rank |-> 2,
                     val |-> [i \in 1..B |-> [j \in 1..L |->
                                 IF i = B /\ j = L THEN id ELSE padding_idx]]],
                    [i \in 1..B |-> L], "batched")

\* forward on a tensor that is not 2-d: a single id, a single unbatched
\* question, or a batch with one dimension too many.
ForwardMalformedShape ==
    \E L \in 1..MaxLen, id \in TokenIds, build \in Builds :
        \E questions \in
              {[rank |-> 0, val |-> id],
               [rank |-> 1, val |-> [t \in 1..L |-> id]],
               [rank |-> 3, val |-> <<[t \in 1..L |-> <<id>>]>>]} :
            ForwardCall(questions, <<L>>, build)

\* -------------------------------------------------------- optimizer step
\* Gradient of the embedding table: the row of padding_idx gets none.
EmbeddingGradUnmasked(weight, g) ==
    [v \in DOMAIN weight |-> [e \in DOMAIN weight[v] |-> Rnd(g, v + e)]]

EmbeddingGrad(weight, g) ==
    [v \in DOMAIN weight |->
        IF v = padding_idx THEN Zeros(Len(weight[v]))
        ELSE [e \in DOMAIN weight[v] |-> Rnd(g, v + e)]]

Sgd(p, grad) == (p + Modulus - grad) % Modulus

\* One parameter update of the training harness, gradient number g.
OptimizerStep ==
    /\ nsteps < MaxSteps
    /\ \E g \in 1..MaxGrad :
        /\ Embedding' = [v \in DOMAIN Embedding |->
                            [e \in DOMAIN Embedding[v] |->
                                Sgd(Embedding[v][e], EmbeddingGrad(Embedding, g)[v][e])]]
        /\ lstm' = [dir \in DOMAIN lstm |->
              [weight_ih |-> [k \in DOMAIN lstm[dir].weight_ih |->
                                 [e \in DOMAIN lstm[dir].weight_ih[k] |->
                                     Sgd(lstm[dir].weight_ih[k][e], Rnd(g, dir + k))]],
               weight_hh |-> [k \in DOMAIN lstm[dir].weight_hh |->
                                 [d \in DOMAIN lstm[dir].weight_hh[k] |->
                                     Sgd(lstm[dir].weight_hh[k][d], Rnd(g, k + d))]],
               bias_ih   |-> [k \in DOMAIN lstm[dir].bias_ih |->
                                 Sgd(lstm[dir].bias_ih[k], Rnd(g, dir * k))],
               bias_hh   |-> [k \in DOMAIN lstm[dir].bias_hh |->
                                 Sgd(lstm[dir].bias_hh[k], Rnd(g, k))]]]
        /\ lstm_proj' =
              [weight |-> [j \in DOMAIN lstm_proj.weight |->
                              [k \in DOMAIN lstm_proj.weight[j] |->
                                  Sgd(lstm_proj.weight[j][k], Rnd(g, j + k))]],
               bias   |-> [j \in DOMAIN lstm_proj.bias |->
                              Sgd(lstm_proj.bias[j], Rnd(g, j))]]
    /\ nsteps' = nsteps + 1
    /\ UNCHANGED <<vocabulary_size, embedded_dim, dim, cur>>

Next == Forward \/ ForwardOutOfRange \/ ForwardMalformedShape \/ OptimizerStep

Spec == Init /\ [][Next]_vars

\* ---------------------------------------------------------------- claims
\* The latest call returned and the parameters are those it ran with.
OkNow == cur.status = "ok" /\ cur.version = nsteps

\* forward was called on a tensor that is not a well-formed batch.
Malformed(q) == q.rank # 2 \/ \E id \in IdsOf(q) : id \notin TokenIds

\* The questions of the latest call with row b replaced by row.
WithRow(b, row) ==
    [rank |-> 2,
     val |-> [i \in DOMAIN cur.questions.val |->
                 IF i = b THEN row ELSE cur.questions.val[i]]]

\* The rows that differ from row b of the latest call, and only at positions
\* at or beyond its declared length.
TailVariants(b) ==
    LET row == cur.questions.val[b]
    IN  {alt \in [DOMAIN row -> TokenIds] :
            /\ alt # row
            /\ \A t \in DOMAIN row : t <= cur.questions_len[b] => alt[t] = row[t]}

\* The final hidden states of both directions over every position of a row,
\* from zero initial states: a walk of the cell down the whole padded row.
FullFinal(row) ==
    LET xs == [t \in DOMAIN row |-> Embedding[row[t]]]
        z  == [h |-> Zeros(dim), c |-> Zeros(dim)]
    IN  [dir \in 1..NumDirections |->
            Direction(lstm[dir], dir, xs, Len(row), z).final.h]

\* C1: a call on a well-formed batch returns contextual_word_embedding of
\* shape (batch_size, max_question_length, dim) and question_encoding of
\* shape (batch_size, 2 * dim).
C1_OutputShapes ==
    (cur.status # "none" /\ ~Malformed(cur.questions)) =>
        LET B == Len(cur.questions.val)
            L == Len(cur.questions.val[1])
        IN  /\ cur.status = "ok"
            /\ cur.returned
            /\ Len(cur.contextual_word_embedding) = B
            /\ \A b \in 1..B :
                  /\ Len(cur.contextual_word_embedding[b]) = L
                  /\ \A t \in 1..L :
                        Len(cur.contextual_word_embedding[b][t]) = dim
            /\ Len(cur.question_encoding) = B
            /\ \A b \in 1..B : Len(cur.question_encoding[b]) = 2 * dim

C1_Witness ==
    /\ cur.status = "ok"
    /\ cur.batch_size = 2
    /\ Len(cur.questions.val[1]) = 2
    /\ dim = 2
    /\ vocabulary_size = 2

\* C2: row 0 of the embedding table is the zero vector after construction,
\* after every forward call and after every optimizer step, and every
\* position that holds id 0 was embedded as the zero vector.
C2_PaddingRowZero ==
    /\ Embedding[padding_idx] = Zeros(embedded_dim)
    /\ cur.status = "ok" =>
          \A b \in DOMAIN cur.questions.val :
              \A t \in DOMAIN cur.questions.val[b] :
                  cur.questions.val[b][t] = padding_idx =>
                      cur.embedded_questions[b][t] = Zeros(embedded_dim)

C2_Witness ==
    /\ nsteps >= 1
    /\ OkNow
    /\ \E b \in DOMAIN cur.questions.val :
          \E t, u \in DOMAIN cur.questions.val[b] :
              /\ cur.questions.val[b][t] = padding_idx
              /\ cur.embedded_questions[b][u] # Zeros(embedded_dim)

\* C3: a call with the weights and the questions of the call before it
\* returns the outputs of the call before it, and so does the call repeated
\* after any calls since.
C3_Deterministic ==
    /\ [](OkNow =>
            LET again == ForwardResult(cur.questions, cur.questions_len, "batched")
            IN  /\ again.contextual_word_embedding = cur.contextual_word_embedding
                /\ again.question_encoding = cur.question_encoding)
    /\ [][(/\ cur.status = "ok" /\ cur'.status = "ok"
           /\ cur.version = nsteps /\ nsteps' = nsteps
           /\ cur'.questions = cur.questions
           /\ cur'.questions_len = cur.questions_len)
          => (/\ cur'.contextual_word_embedding = cur.contextual_word_embedding
              /\ cur'.question_encoding = cur.question_encoding)]_vars

C3_Witness ==
    /\ OkNow
    /\ cur.batch_size = 2
    /\ cur.question_encoding[1] # cur.question_encoding[2]
    /\ \E d \in 1..dim : cur.question_encoding[1][d] # 0

\* C4: a forward call, returning or raising, leaves the embedding table, the
\* recurrent weights and the projection weights as they were, and every call
\* starts the recurrent layer from zero states, whatever the calls before it.
C4_ForwardKeepsState ==
    /\ [][nsteps' = nsteps =>
             (Embedding' = Embedding /\ lstm' = lstm /\ lstm_proj' = lstm_proj)]_vars
    /\ [](cur.status = "ok" =>
             \A dir \in 1..NumDirections : \A b \in 1..cur.batch_size :
                 cur.initial_state[dir][b] = [h |-> Zeros(dim), c |-> Zeros(dim)])

C4_Witness ==
    /\ cur.status = "ok"
    /\ \E v \in DOMAIN Embedding : v \in IdsOf(cur.questions) /\ Embedding[v][1] > 1
    /\ \E b \in 1..cur.batch_size : cur.h[1][b] # Zeros(dim)

\* C5: the outputs of a call are those of the call with any other
\* questions_len, and the recurrent layer walks all max_question_length
\* positions of every batch element.
C5_LengthsUnused ==
    OkNow =>
        LET B == cur.batch_size
            L == Len(cur.questions.val[1])
        IN  /\ \A b \in 1..B : cur.positions[b] = L
            /\ \A ql \in [1..B -> 0..L] :
                  LET other == ForwardResult(cur.questions, ql, "batched")
                  IN  /\ other.contextual_word_embedding = cur.contextual_word_embedding
                      /\ other.question_encoding = cur.question_encoding

C5_Witness ==
    /\ OkNow
    /\ \E b \in 1..cur.batch_size :
          /\ cur.questions_len[b] < Len(cur.questions.val[b])
          /\ cur.questions.val[b][Len(cur.questions.val[b])] # padding_idx
          /\ cur.lstm_out[b][1] # cur.lstm_out[b][Len(cur.questions.val[b])]

C7_EncodingRows ==
    cur.status = "ok" =>
        \A b \in 1..cur.batch_size :
            cur.question_encoding[b] = cur.h[1][b] \o cur.h[2][b]

C7_Witness ==
    /\ cur.status = "ok"
    /\ cur.batch_size = 2
    /\ cur.h[1][2] # cur.h[2][1]
    /\ cur.h[1][1] # cur.h[1][2]

\* C8 as claimed: a call on an out-of-range id or a malformed shape fails with
\* the error of the embedding lookup or of the recurrent layer and returns
\* nothing.
C8_FailsInALayer ==
    (cur.status # "none" /\ Malformed(cur.questions)) =>
        /\ cur.status = "error"
        /\ cur.error \in {"embedding", "lstm"}
        /\ ~cur.returned

\* C8: a call on an out-of-range id or a malformed shape fails with the error
\* of the first library operation that rejects it (the shape lookup, the
\* embedding lookup, the recurrent layer or the permute), returns no output
\* pair and no fallback value, and leaves the parameters as they were.
C8_FailsWithoutRecovery ==
    /\ []((cur.status # "none" /\ Malformed(cur.questions)) =>
            /\ cur.status = "error"
            /\ cur.error = (CASE cur.questions.rank = 0 -> "shape"
                              [] \E id \in IdsOf(cur.questions) : id \notin TokenIds
                                    -> "embedding"
                              [] cur.questions.rank = 3 -> "lstm"
                              [] OTHER -> cur.error)
            /\ cur.error \in {"shape", "embedding", "lstm", "permute"}
            /\ ~cur.returned
            /\ cur.contextual_word_embedding = <<>>
            /\ cur.question_encoding = <<>>)
    /\ [][(cur'.status = "error" /\ nsteps' = nsteps) =>
             (Embedding' = Embedding /\ lstm' = lstm /\ lstm_proj' = lstm_proj)]_vars

C8_Witness ==
    /\ cur.status = "error"
    /\ cur.error = "embedding"
    /\ cur.questions.rank = 2
    /\ Len(cur.questions.val) = 2
    /\ \E v \in DOMAIN Embedding : Embedding[v] # Zeros(embedded_dim)

\* C9: the outputs of batch element b are those it has when any other
\* element's ids are replaced, and those it has, at its new place, when the
\* batch is reversed.
C9_BatchIndependent ==
    OkNow =>
        LET B == cur.batch_size
            L == Len(cur.questions.val[1])
            flipped == ForwardResult(
                           [rank |-> 2,
                            val |-> [i \in 1..B |-> cur.questions.val[B + 1 - i]]],
                           [i \in 1..B |-> cur.questions_len[B + 1 - i]], "batched")
        IN  /\ \A b \in 1..B :
                  /\ flipped.contextual_word_embedding[B + 1 - b]
                        = cur.contextual_word_embedding[b]
                  /\ flipped.question_encoding[B + 1 - b] = cur.question_encoding[b]
            /\ \A b \in 1..B : \A o \in (1..B) \ {b} : \A alt \in [1..L -> TokenIds] :
                  LET other == ForwardResult(WithRow(o, alt), cur.questions_len, "batched")
                  IN  /\ other.contextual_word_embedding[b]
                            = cur.contextual_word_embedding[b]
                      /\ other.question_encoding[b] = cur.question_encoding[b]

C9_Witness ==
    /\ OkNow
    /\ cur.batch_size = 2
    /\ cur.questions.val[1] # cur.questions.val[2]
    /\ cur.question_encoding[1] # cur.question_encoding[2]
    /\ cur.contextual_word_embedding[1] # cur.contextual_word_embedding[2]

\* C10: the first dim entries of question_encoding[b] are the forward half of
\* lstm_out at the last position, the last dim entries the backward half of
\* lstm_out at the first position, and contextual_word_embedding[b][t] is the
\* projection of lstm_out[b][t] alone.
C10_EncodingMatchesOutputs ==
    cur.status = "ok" =>
        LET L == Len(cur.questions.val[1])
        IN  \A b \in 1..cur.batch_size :
                /\ \A d \in 1..dim :
                      /\ cur.question_encoding[b][d] = cur.lstm_out[b][L][d]
                      /\ cur.question_encoding[b][dim + d] = cur.lstm_out[b][1][dim + d]
                /\ cur.version = nsteps =>
                      \A t \in 1..L :
                          cur.contextual_word_embedding[b][t]
                              = Linear(lstm_proj, cur.lstm_out[b][t])

C10_Witness ==
    /\ OkNow
    /\ Len(cur.questions.val[1]) = 2
    /\ \E b \in 1..cur.batch_size :
          /\ SubSeq(cur.lstm_out[b][1], dim + 1, 2 * dim)
                # SubSeq(cur.lstm_out[b][2], dim + 1, 2 * dim)
          /\ SubSeq(cur.lstm_out[b][1], 1, dim) # SubSeq(cur.lstm_out[b][2], 1, dim)
          /\ cur.contextual_word_embedding[b][1] # cur.contextual_word_embedding[b][2]

====
